---- MODULE Spec2Model ----
(***************************************************************************)
(* A model of the lithography preprocessor: the coordinate toolkit         *)
(* (lithography_toolkit.py) and the Traits objects that call it            *)
(* (lithography_preprocessor.py).                                          *)
(*                                                                         *)
(* Numbers.  The program computes with IEEE doubles; the model computes    *)
(* with exact numbers instead, so that "equal" means equal as real         *)
(* numbers and rounding noise is left out:                                 *)
(*   - a rational is a pair <<n, d>> in lowest terms with d > 0;           *)
(*   - NaN, numpy's result of 0.0/0.0, is the pair <<0, 0>>;               *)
(*   - a vector that went through a division by a norm is a "surd vector"  *)
(*     [vec, sq]: the integer direction vec times sqrt(sq), sq a rational. *)
(* Every division of the source either divides by a non-zero literal, by   *)
(* float(num - 1) with num >= 2, or divides zeros by a zero norm or        *)
(* maximum, so infinities never arise and NaN is the only non-number.      *)
(***************************************************************************)
EXTENDS Integers, Sequences, FiniteSets, TLC

\* ------------------------------------------------------------ integers

Abs(i) == IF i < 0 THEN -i ELSE i

Sign(i) == IF i < 0 THEN -1 ELSE IF i = 0 THEN 0 ELSE 1

RECURSIVE GCD(_, _)
GCD(a, b) == IF b = 0 THEN a ELSE GCD(b, a % b)

LCM(a, b) == (a \div GCD(a, b)) * b

\* The integer r with r * r = n, or -1 when n is no perfect square.
ISqrt(n) ==
  IF \E r \in 0..n : r * r = n THEN CHOOSE r \in 0..n : r * r = n ELSE -1

\* ----------------------------------------------------------- rationals

NaN == <<0, 0>>

IsNaN(r) == r[2] = 0

Rat(n, d) ==
  IF d = 0 THEN NaN
  ELSE LET g == GCD(Abs(n), Abs(d))
       IN  IF d < 0 THEN <<(-n) \div g, (-d) \div g>>
                    ELSE <<n \div g, d \div g>>

R(i) == <<i, 1>>

RAdd(a, b) ==
  IF IsNaN(a) \/ IsNaN(b) THEN NaN
  ELSE Rat(a[1] * b[2] + b[1] * a[2], a[2] * b[2])

RNeg(a) == IF IsNaN(a) THEN NaN ELSE <<-a[1], a[2]>>

RSub(a, b) == RAdd(a, RNeg(b))

RMul(a, b) ==
  IF IsNaN(a) \/ IsNaN(b) THEN NaN ELSE Rat(a[1] * b[1], a[2] * b[2])

\* numpy's true division: 0/0 is NaN (a warning, never an exception).
RDiv(a, b) ==
  IF IsNaN(a) \/ IsNaN(b) \/ b[1] = 0 THEN NaN
  ELSE Rat(a[1] * b[2], a[2] * b[1])

\* Comparisons with NaN are false, as in IEEE arithmetic.
RLess(a, b) == ~IsNaN(a) /\ ~IsNaN(b) /\ a[1] * b[2] < b[1] * a[2]

\* ------------------------------------------------- vectors of rationals

Axes == 1..3

QV(a, b, c) == <<R(a), R(b), R(c)>>

QSub(p, q) == <<RSub(p[1], q[1]), RSub(p[2], q[2]), RSub(p[3], q[3])>>

QAdd(p, q) == <<RAdd(p[1], q[1]), RAdd(p[2], q[2]), RAdd(p[3], q[3])>>

QScale(s, p) == <<RMul(s, p[1]), RMul(s, p[2]), RMul(s, p[3])>>

QDot(p, q) == RAdd(RAdd(RMul(p[1], q[1]), RMul(p[2], q[2])), RMul(p[3], q[3]))

QCross(p, q) ==
  << RSub(RMul(p[2], q[3]), RMul(p[3], q[2])),
     RSub(RMul(p[3], q[1]), RMul(p[1], q[3])),
     RSub(RMul(p[1], q[2]), RMul(p[2], q[1])) >>

QZero == QV(0, 0, 0)

\* --------------------------------------------------------- surd vectors

NaNVec == [vec |-> <<0, 0, 0>>, sq |-> NaN]

ZeroVec == [vec |-> <<0, 0, 0>>, sq |-> R(0)]

VecIsNaN(v) == IsNaN(v.sq)

\* The unique representation of vec * sqrt(sq): a primitive integer
\* direction, its length folded into sq.
SV(vec, sq) ==
  IF IsNaN(sq) THEN NaNVec
  ELSE LET g == GCD(GCD(Abs(vec[1]), Abs(vec[2])), Abs(vec[3]))
       IN  IF g = 0 \/ sq[1] = 0 THEN ZeroVec
           ELSE [vec |-> <<vec[1] \div g, vec[2] \div g, vec[3] \div g>>,
                 sq  |-> RMul(sq, R(g * g))]

\* A vector of rationals as a surd vector: numerators over the common
\* denominator D, times sqrt(1 / D^2).
FromQ(p) ==
  IF \E k \in Axes : IsNaN(p[k]) THEN NaNVec
  ELSE LET D == LCM(LCM(p[1][2], p[2][2]), p[3][2])
       IN  SV(<<p[1][1] * (D \div p[1][2]), p[2][1] * (D \div p[2][2]),
                p[3][1] * (D \div p[3][2])>>, Rat(1, D * D))

\* The components of a surd vector whose scale is rational; NaN components
\* for a NaN vector.  Used only where IsRational holds or the vector is NaN.
IsRational(v) ==
  VecIsNaN(v) \/ (ISqrt(v.sq[1]) >= 0 /\ ISqrt(v.sq[2]) >= 0)

ToQ(v) ==
  IF VecIsNaN(v) THEN <<NaN, NaN, NaN>>
  ELSE LET s == Rat(ISqrt(v.sq[1]), ISqrt(v.sq[2]))
       IN  <<RMul(s, R(v.vec[1])), RMul(s, R(v.vec[2])), RMul(s, R(v.vec[3]))>>

IDot(a, b) == a[1] * b[1] + a[2] * b[2] + a[3] * b[3]

ICross(a, b) ==
  << a[2] * b[3] - a[3] * b[2],
     a[3] * b[1] - a[1] * b[3],
     a[1] * b[2] - a[2] * b[1] >>

\* numpy.linalg.norm: sqrt(sum of squares), given by its radicand; NaN for
\* a NaN vector.
norm(v) == IF VecIsNaN(v) THEN NaN ELSE RMul(R(IDot(v.vec, v.vec)), v.sq)

\* numpy.cross of two surd vectors.
cross(a, b) ==
  IF VecIsNaN(a) \/ VecIsNaN(b) THEN NaNVec
  ELSE SV(ICross(a.vec, b.vec), RMul(a.sq, b.sq))

\* v / n for an array v and a norm n (given by its radicand): numpy's
\* elementwise true division.  A zero norm is the norm of a zero vector, so
\* every component is 0.0/0.0 = NaN.
VDiv(v, n) ==
  IF VecIsNaN(v) \/ IsNaN(n) \/ n[1] = 0 THEN NaNVec
  ELSE SV(v.vec, RDiv(v.sq, n))

\* The sign of a . b for surd vectors (0 when either is NaN).
DotSign(a, b) ==
  IF VecIsNaN(a) \/ VecIsNaN(b) THEN 0
  ELSE Sign(IDot(a.vec, b.vec)) * Sign(a.sq[1]) * Sign(b.sq[1])

\* ------------------------------------------------- lithography_toolkit

\* Mutant: eY taken as eX x eZ, the operands of the last cross product
\* swapped (a left-handed frame).
get_referential_swapped(O, A, B) ==
  LET OA == FromQ(QSub(A, O))
      eX == VDiv(OA, norm(OA))
      OB == FromQ(QSub(B, O))
      v  == VDiv(OB, norm(OB))
      eZ == VDiv(cross(eX, v), norm(cross(eX, v)))
      eY == cross(eX, eZ)
  IN  [raised |-> "none", eX |-> eX, eY |-> eY, eZ |-> eZ]

\* Mutant: OB taken as B itself, the origin not subtracted.
get_referential_absoluteB(O, A, B) ==
  LET OA == FromQ(QSub(A, O))
      eX == VDiv(OA, norm(OA))
      OB == FromQ(B)
      v  == VDiv(OB, norm(OB))
      eZ == VDiv(cross(eX, v), norm(cross(eX, v)))
      eY == cross(eZ, eX)
  IN  [raised |-> "none", eX |-> eX, eY |-> eY, eZ |-> eZ]

\* Mutant: eY taken as the raw direction of B - O.
get_referential_rawB(O, A, B) ==
  LET OA == FromQ(QSub(A, O))
      eX == VDiv(OA, norm(OA))
      OB == FromQ(QSub(B, O))
      v  == VDiv(OB, norm(OB))
      eZ == VDiv(cross(eX, v), norm(cross(eX, v)))
      eY == v
  IN  [raised |-> "none", eX |-> eX, eY |-> eY, eZ |-> eZ]

\* get_referential(O, A, B): the wafer's frame in stage coordinates.  No
\* statement of it raises: the divisions are numpy's, and a zero norm gives
\* NaN components.
get_referential(O, A, B) ==
  LET OA == FromQ(QSub(A, O))
      eX == VDiv(OA, norm(OA))
      OB == FromQ(QSub(B, O))
      v  == VDiv(OB, norm(OB))
      eZ == VDiv(cross(eX, v), norm(cross(eX, v)))
      eY == cross(eZ, eX)
  IN  [raised |-> "none", eX |-> eX, eY |-> eY, eZ |-> eZ]

\* A Python 2 number: an int or a float, with its value.
PyInt(i) == [t |-> "int", v |-> R(i)]

PyFloat(r) == [t |-> "float", v |-> r]

\* Unary minus keeps the type.
PyNeg(a) == [t |-> a.t, v |-> RNeg(a.v)]

\* a / b in Python 2 without "from __future__ import division": floor
\* division of two ints (b > 0 here: the literal 2), true division as soon
\* as one operand is a float.
PyDiv(a, b) ==
  IF a.t = "int" /\ b.t = "int"
  THEN PyInt(a.v[1] \div b.v[1])
  ELSE PyFloat(RDiv(a.v, b.v))

\* numpy.linspace(start, stop, num): num floats, the first start, the last
\* stop, evenly spaced; a single sample is start; none for num = 0.
linspace(start, stop, num) ==
  IF num <= 0 THEN <<>>
  ELSE IF num = 1 THEN <<start.v>>
  ELSE LET step == RDiv(RSub(stop.v, start.v), R(num - 1))
       IN  [i \in 1..num |->
              IF i = num THEN stop.v
              ELSE RAdd(RMul(R(i - 1), step), start.v)]

\* numpy.meshgrid(x, y): two len(y) x len(x) matrices, xx repeating x along
\* the rows and yy repeating y along the columns.
meshgrid(x, y) ==
  [xx |-> [j \in 1..Len(y) |-> [i \in 1..Len(x) |-> x[i]]],
   yy |-> [j \in 1..Len(y) |-> [i \in 1..Len(x) |-> y[j]]]]

\* m[mask] for a boolean matrix mask of m's shape: the selected entries in
\* row-major (C) order.
RECURSIVE BoolIndexFrom(_, _, _, _, _)
BoolIndexFrom(m, mask, Ny, Nx, k) ==
  IF k > Ny * Nx THEN <<>>
  ELSE LET j == ((k - 1) \div Nx) + 1
           i == ((k - 1) % Nx) + 1
           rest == BoolIndexFrom(m, mask, Ny, Nx, k + 1)
       IN  IF mask[j][i] THEN <<m[j][i]>> \o rest ELSE rest

BoolIndex(m, mask, Ny, Nx) == BoolIndexFrom(m, mask, Ny, Nx, 1)

\* Mutant: the mask applied in column-major (Fortran) order.
RECURSIVE BoolIndexColumnsFrom(_, _, _, _, _)
BoolIndexColumnsFrom(m, mask, Ny, Nx, k) ==
  IF k > Ny * Nx THEN <<>>
  ELSE LET i == ((k - 1) \div Ny) + 1
           j == ((k - 1) % Ny) + 1
           rest == BoolIndexColumnsFrom(m, mask, Ny, Nx, k + 1)
       IN  IF mask[j][i] THEN <<m[j][i]>> \o rest ELSE rest

\* Mutant of get_black_points: column-major traversal of the mask.
get_black_points_columns(data, width, height) ==
  LET Ny == data.shape[1]
      Nx == data.shape[2]
      x  == linspace(PyDiv(PyNeg(width), PyInt(2)), PyDiv(width, PyInt(2)), Nx)
      y  == linspace(PyDiv(height, PyInt(2)), PyDiv(PyNeg(height), PyInt(2)), Ny)
      g  == meshgrid(x, y)
      black == [j \in 1..Ny |-> [i \in 1..Nx |-> data.px[j][i] = 0]]
  IN  [raised  |-> "none",
       black_x |-> BoolIndexColumnsFrom(g.xx, black, Ny, Nx, 1),
       black_y |-> BoolIndexColumnsFrom(g.yy, black, Ny, Nx, 1)]

\* get_black_points(data, width, height): the wafer coordinates of the
\* cells of data that are 0.  data is [shape |-> <<Ny, Nx>>, px |-> rows].
\* Nothing in it checks the shape or the extent, and no statement raises.
get_black_points(data, width, height) ==
  LET Ny == data.shape[1]
      Nx == data.shape[2]
      x  == linspace(PyDiv(PyNeg(width), PyInt(2)), PyDiv(width, PyInt(2)), Nx)
      y  == linspace(PyDiv(height, PyInt(2)), PyDiv(PyNeg(height), PyInt(2)), Ny)
      g  == meshgrid(x, y)
      black == [j \in 1..Ny |-> [i \in 1..Nx |-> data.px[j][i] = 0]]
  IN  [raised  |-> "none",
       black_x |-> BoolIndex(g.xx, black, Ny, Nx),
       black_y |-> BoolIndex(g.yy, black, Ny, Nx)]

\* numpy's elementwise arithmetic on one-dimensional float arrays.
ArrMul(a, s) == [n \in 1..Len(a) |-> RMul(a[n], s)]

ArrAdd(a, b) == [n \in 1..Len(a) |-> RAdd(a[n], b[n])]

ScalarAdd(s, a) == [n \in 1..Len(a) |-> RAdd(s, a[n])]

\* Mutant: the basis read as rows, eX[k] for x, y, z in turn (the matrix
\* of the change of basis transposed).
transform_coordinates_transposed(x, y, z, O, eX, eY, eZ) ==
  [raised |-> "none",
   X |-> ArrAdd(ArrAdd(ScalarAdd(O[1], ArrMul(x, eX[1])), ArrMul(y, eX[2])),
                ArrMul(z, eX[3])),
   Y |-> ArrAdd(ArrAdd(ScalarAdd(O[2], ArrMul(x, eY[1])), ArrMul(y, eY[2])),
                ArrMul(z, eY[3])),
   Z |-> ArrAdd(ArrAdd(ScalarAdd(O[3], ArrMul(x, eZ[1])), ArrMul(y, eZ[2])),
                ArrMul(z, eZ[3]))]

\* Mutant: the origin left out, the basis applied alone.
transform_coordinates_noorigin(x, y, z, O, eX, eY, eZ) ==
  [raised |-> "none",
   X |-> ArrAdd(ArrAdd(ArrMul(x, eX[1]), ArrMul(y, eY[1])), ArrMul(z, eZ[1])),
   Y |-> ArrAdd(ArrAdd(ArrMul(x, eX[2]), ArrMul(y, eY[2])), ArrMul(z, eZ[2])),
   Z |-> ArrAdd(ArrAdd(ArrMul(x, eX[3]), ArrMul(y, eY[3])), ArrMul(z, eZ[3]))]

\* transform_coordinates(x, y, z, O, eX, eY, eZ): stage coordinates of the
\* wafer points (x[n], y[n], z[n]); x, y, z are arrays of one shape.  The
\* source's indices 0, 1, 2 are 1, 2, 3 here.
transform_coordinates(x, y, z, O, eX, eY, eZ) ==
  [raised |-> "none",
   X |-> ArrAdd(ArrAdd(ScalarAdd(O[1], ArrMul(x, eX[1])), ArrMul(y, eY[1])),
                ArrMul(z, eZ[1])),
   Y |-> ArrAdd(ArrAdd(ScalarAdd(O[2], ArrMul(x, eX[2])), ArrMul(y, eY[2])),
                ArrMul(z, eZ[2])),
   Z |-> ArrAdd(ArrAdd(ScalarAdd(O[3], ArrMul(x, eX[3])), ArrMul(y, eY[3])),
                ArrMul(z, eZ[3]))]

\* numpy's round: to the nearest integer, a tie to the even neighbour.
RoundHalfEven(r) ==
  LET f == r[1] \div r[2]
      twice == 2 * (r[1] - f * r[2])
  IN  IF twice < r[2] THEN f
      ELSE IF twice > r[2] THEN f + 1
      ELSE IF f % 2 = 0 THEN f ELSE f + 1

\* What astype('int') makes of a NaN.  The C conversion is undefined:
\* builds give the most negative integer (x86) or 0 (ARM).  TLC's integers
\* are 32 bits wide, so the most negative one stands for that of the build.
NanCasts == {0, -2147483647 - 1}

Max(S) == CHOOSE m \in S : \A n \in S : n <= m

\* path_to_array(image_path): the file's greyscale intensities (0..255)
\* divided by their maximum, rounded, as ints.  file is what Image.open
\* finds at the path: [shape, px], or Missing, for which it raises IOError.
\* nancast is what the build makes of NaN, the value of 0/0 when the image
\* is uniformly black.
Missing == [shape |-> <<0>>, px |-> <<>>, missing |-> TRUE]

path_to_array(file, nancast) ==
  IF file = Missing THEN [raised |-> "IOError"]
  ELSE LET Ny == file.shape[1]
           Nx == file.shape[2]
           top == Max({file.px[j][i] : j \in 1..Ny, i \in 1..Nx})
           bin(v) == LET q == RDiv(R(v), R(top))
                     IN  IF IsNaN(q) THEN nancast ELSE RoundHalfEven(q)
       IN  [raised |-> "none",
            arr |-> [shape |-> file.shape,
                     px |-> [j \in 1..Ny |-> [i \in 1..Nx |->
                               bin(file.px[j][i])]]]]

\* ----------------------------------------------------- string formatting

\* The six digits after the point: n < 10^6, padded with zeros on the left.
SixDigits(n) ==
  (IF n < 10 THEN "00000" ELSE IF n < 100 THEN "0000"
   ELSE IF n < 1000 THEN "000" ELSE IF n < 10000 THEN "00"
   ELSE IF n < 100000 THEN "0" ELSE "") \o ToString(n)

\* '%.6f' % r for a float r: sign, integer part, point, six decimals, the
\* value rounded to the nearest millionth; 'nan' for NaN.
FormatF6(r) ==
  IF IsNaN(r) THEN "nan"
  ELSE LET m == RoundHalfEven(RMul(<<Abs(r[1]), r[2]>>, R(1000000)))
       IN  (IF r[1] < 0 THEN "-" ELSE "") \o ToString(m \div 1000000)
             \o "." \o SixDigits(m % 1000000)

\* '%d' % i for an int i.
FormatD(i) == ToString(i)

\* ----------------------------------------------------------- controllers

\* The stage controller's axis numbers.
x_axis == 3

y_axis == 1

z_axis == 2

\* Python's None, the default of move_abs's arguments.
None == [t |-> "None"]

\* Stage.__init__: the serial connection, given by the strings written to
\* it so far.
NewStage == [con |-> <<>>]

\* Stage.write(string): send the string and a carriage return (the
\* decorator needs_serial only sleeps before).
write(stage, string) == [stage EXCEPT !.con = Append(@, string \o "\r")]

\* Stage.move_abs(x, y, z): one line with the three absolute positions,
\* then '0RUN'.  The line is built with '%.6f' for each coordinate, which
\* raises TypeError for None (an int is formatted as a float) before
\* anything is written.
move_abs(stage, x, y, z) ==
  IF x = None \/ y = None \/ z = None
  THEN [raised |-> "TypeError", con |-> stage.con]
  ELSE LET line == FormatD(x_axis) \o "MSA" \o FormatF6(x.v) \o "; "
                     \o FormatD(y_axis) \o "MSA" \o FormatF6(y.v) \o "; "
                     \o FormatD(z_axis) \o "MSA" \o FormatF6(z.v)
       IN  [raised |-> "none",
            con |-> write(write(stage, line), "0RUN").con]

\* --------------------------------------------- lithography_preprocessor

\* nonzero_validator(object, name, value): the value as a float, or a
\* ValueError for zero.  Negative values pass.
nonzero_validator(value) ==
  IF value = R(0) THEN [raised |-> "ValueError"]
  ELSE [raised |-> "none", value |-> value]

\* len(a) and size(a) of an array.
len(a) == a.shape[1]

size(a) == IF Len(a.shape) = 1 THEN a.shape[1] ELSE a.shape[1] * a.shape[2]

\* The default of an Array trait: an empty one-dimensional array.
EmptyArray == [shape |-> <<0>>, px |-> <<>>]

\* A handler's progress: the Picture p, the latest call to get_black_points
\* or savetxt and its outcome (call, ret), and the exception that ended it,
\* if one did.  Traits logs an exception leaving a handler and goes on, so
\* what was assigned before it stays assigned.

\* Picture.update_preview3d: map the black pixels to the stage and keep
\* them in X, Y, Z; nothing for an array of length 0.
update_preview3d(h, ref) ==
  IF len(h.p.data) = 0 THEN h
  ELSE LET w  == PyFloat(h.p.width)
           ht == PyFloat(h.p.height)
           b  == get_black_points(h.p.data, w, ht)
           t  == transform_coordinates(
                   b.black_x, b.black_y, [n \in 1..Len(b.black_x) |-> R(0)],
                   ref.O, ref.eX, ref.eY, ref.eZ)
       IN  [h EXCEPT !.p.X = t.X, !.p.Y = t.Y, !.p.Z = t.Z,
                     !.call = [fn |-> "get_black_points", data |-> h.p.data,
                               width |-> w, height |-> ht],
                     !.ret = b]

\* Picture.update_dimensions: width and height from the pixel count and the
\* spacing, then both previews.  Each assignment goes through
\* nonzero_validator, whose exception ends the handler.  The assignments
\* also fire update_preview2d, and the handler calls it: with data loaded
\* it only draws.
update_dimensions(h, ref) ==
  IF size(h.p.data) = 0 THEN h
  ELSE LET Ny == h.p.data.shape[1]
           Nx == h.p.data.shape[2]
           w  == nonzero_validator(RMul(R(Nx - 1), h.p.pixel_spacing))
           ht == nonzero_validator(RMul(R(Ny - 1), h.p.pixel_spacing))
       IN  IF w.raised # "none" THEN [h EXCEPT !.raised = w.raised]
           ELSE IF ht.raised # "none"
           THEN [h EXCEPT !.p.width = w.value, !.raised = ht.raised]
           ELSE update_preview3d(
                  [h EXCEPT !.p.width = w.value, !.p.height = ht.value], ref)

\* Picture.update_data, the listener of path: load the image; an IOError
\* is shown in a dialog and nothing else changes.
update_data(h, ref, file, nancast) ==
  LET r == path_to_array(file, nancast)
  IN  IF r.raised = "IOError" THEN h
      ELSE update_dimensions([h EXCEPT !.p.data = r.arr], ref)

\* Picture.update_preview2d: load the image first if none is loaded (an
\* IOError is not caught here), then draw.
update_preview2d(h, ref, file, nancast) ==
  IF len(h.p.data) = 0
  THEN LET r == path_to_array(file, nancast)
       IN  IF r.raised # "none" THEN [h EXCEPT !.raised = r.raised]
           ELSE update_dimensions([h EXCEPT !.p.data = r.arr], ref)
  ELSE h

\* Referential._recalculate_fired: the frame of the current O, A, B, kept
\* as float vectors.
recalculate(ref) ==
  LET r == get_referential(ref.O, ref.A, ref.B)
  IN  [ref EXCEPT !.eX = ToQ(r.eX), !.eY = ToQ(r.eY), !.eZ = ToQ(r.eZ)]

\* numpy.c_[X, Y, Z] for one-dimensional arrays of one length: the matrix
\* whose n-th row is (X[n], Y[n], Z[n]).
c_(X, Y, Z) == [n \in 1..Len(X) |-> <<X[n], Y[n], Z[n]>>]

\* numpy.savetxt(fname, points, fmt='%.6f'): one line per row, the row's
\* numbers formatted with fmt and joined by single spaces.
savetxt(points) ==
  [n \in 1..Len(points) |->
     FormatF6(points[n][1]) \o " " \o FormatF6(points[n][2]) \o " "
       \o FormatF6(points[n][3])]

\* MainWindow._export_data_fired: write the Picture's X, Y, Z to the export
\* path, unless the file exists and the user declines to overwrite it.
\* exists and answer are what os.path.exists and the dialog return.
export_data(h, exists, answer) ==
  LET points == c_(h.p.X, h.p.Y, h.p.Z)
  IN  IF exists /\ answer = "NO" THEN h
      ELSE [h EXCEPT !.call = [fn |-> "savetxt", points |-> points,
                               fmt |-> "%.6f"],
                     !.ret = [raised |-> "none", lines |-> savetxt(points)]]

\* ---------------------------------------------------------------- state

VARIABLES
  call,         \* the call under test, or (in the GUI) the latest call a
                \* handler made to get_black_points or savetxt, with its
                \* arguments
  ret,          \* Pending before the call, the call's outcome after it
  referential,  \* the Referential object: O, A, B, eX, eY, eZ
  picture       \* the Picture object: path, pixel_size, pixel_spacing,
                \* width, height, data, X, Y, Z

vars == <<call, ret, referential, picture>>

gui == <<referential, picture>>

Pending == [raised |-> "pending"]

\* Referential.__init__: O, A, B on the stage axes, and their frame.
InitReferential ==
  recalculate([O |-> QV(0, 0, 0), A |-> QV(1, 0, 0), B |-> QV(0, 1, 0),
               eX |-> QZero, eY |-> QZero, eZ |-> QZero])

DefaultPath == "220px-Tux.png"

\* The Picture's trait defaults; no listener has run yet.
InitPicture ==
  [path |-> DefaultPath, pixel_size |-> R(1), pixel_spacing |-> R(1),
   width |-> R(10), height |-> R(10), data |-> EmptyArray,
   X |-> <<>>, Y |-> <<>>, Z |-> <<>>]

\* The objects as the main program constructs them.
InitGui == referential = InitReferential /\ picture = InitPicture

\* ------------------------------------------- get_referential under test

MaxCoord == 1

Coord == (-1)..MaxCoord

Cube == {QV(a, b, c) : a \in Coord, b \in Coord, c \in Coord}

\* Origins: the stage origin, and a point off it.
Origins == {QV(0, 0, 0), QV(1, -1, 2)}

InitRef ==
  /\ call \in {[fn |-> "get_referential", O |-> o, A |-> a, B |-> b] :
                 o \in Origins, a \in Cube, b \in Cube}
  /\ ret = Pending
  /\ InitGui

CallGetReferential ==
  /\ call.fn = "get_referential"
  /\ ret = Pending
  /\ ret' = get_referential(call.O, call.A, call.B)
  /\ UNCHANGED <<call, gui>>

NextRef == CallGetReferential

SpecRef == InitRef /\ [][NextRef]_vars

\* --------------------------------------------- claims on get_referential

\* The triple defines a plane: A # O, B # O, A - O not parallel to B - O.
NonDegenerate(O, A, B) ==
  /\ A # O
  /\ B # O
  /\ QCross(QSub(A, O), QSub(B, O)) # QZero

RefDone == call.fn = "get_referential" /\ ret # Pending

RefValid == RefDone /\ NonDegenerate(call.O, call.A, call.B)

VNeg(v) == IF VecIsNaN(v) THEN NaNVec ELSE SV(<<-v.vec[1], -v.vec[2], -v.vec[3]>>, v.sq)

\* C1: for every non-degenerate (O, A, B) the returned eX, eY, eZ have unit
\* length, are mutually orthogonal, satisfy eZ = eX x eY, and eX points
\* along O -> A.
C1_Orthonormal ==
  RefValid =>
    LET OA == FromQ(QSub(call.A, call.O))
    IN  /\ ret.raised = "none"
        /\ \A e \in {ret.eX, ret.eY, ret.eZ} : ~VecIsNaN(e) /\ norm(e) = R(1)
        /\ IDot(ret.eX.vec, ret.eY.vec) = 0
        /\ IDot(ret.eX.vec, ret.eZ.vec) = 0
        /\ IDot(ret.eY.vec, ret.eZ.vec) = 0
        /\ ret.eZ = cross(ret.eX, ret.eY)
        /\ cross(ret.eX, OA) = ZeroVec
        /\ DotSign(ret.eX, OA) = 1

\* A non-degenerate triple off the stage axes, whose frame has been
\* returned: no basis vector is a stage axis.
C1_Witness ==
  /\ RefValid
  /\ ret.eX.sq # R(1)
  /\ ret.eY.sq # R(1)
  /\ ret.eZ.sq # R(1)

\* C2: for a triple that defines no plane, get_referential fails with
\* DegenerateGeometry and returns no frame.
C2_DegenerateRaises ==
  (RefDone /\ ~NonDegenerate(call.O, call.A, call.B)) =>
    ret = [raised |-> "DegenerateGeometry"]

MaxScale == 2

Scales == {Rat(1, MaxScale)} \cup {R(n) : n \in 1..MaxScale}

Offsets == {QZero, <<Rat(1, 2), R(-2), Rat(4, 3)>>}

\* C9: the frame of (O + t, O + t + s1 (A - O), O + t + s2 (B - O)) is the
\* frame of (O, A, B), for every offset t and all positive s1, s2.
C9_DirectionsOnly ==
  RefValid =>
    \A t \in Offsets : \A s1 \in Scales : \A s2 \in Scales :
      LET O2 == QAdd(call.O, t)
          A2 == QAdd(O2, QScale(s1, QSub(call.A, call.O)))
          B2 == QAdd(O2, QScale(s2, QSub(call.B, call.O)))
      IN  get_referential(O2, A2, B2) = ret

\* A frame returned for a triple whose origin is off the stage origin and
\* whose B - O is not a unit vector perpendicular to A - O.
C9_Witness ==
  /\ RefValid
  /\ call.O # QZero
  /\ QDot(QSub(call.A, call.O), QSub(call.B, call.O)) # R(0)
  /\ QDot(QSub(call.B, call.O), QSub(call.B, call.O)) # R(1)

MaxShear == 2

Shears == {Rat(n, MaxShear) : n \in (-MaxShear - 1)..(MaxShear + 1)}

\* B mirrored across the line through O and A.
Mirror(O, A, B) ==
  LET OA == QSub(A, O)
      OB == QSub(B, O)
      p  == QScale(RDiv(QDot(OA, OB), QDot(OA, OA)), OA)
  IN  QAdd(O, QSub(QScale(R(2), p), OB))

\* C10: B + t (A - O) gives the same frame as B for every t; eY is
\* perpendicular to eX, is the direction of B - O only when B - O is
\* perpendicular to A - O, and lies on B's side of the line O-A; mirroring B
\* across that line negates eY and eZ and keeps eX.
C10_HalfPlane ==
  RefValid =>
    LET OA == QSub(call.A, call.O)
        OB == QSub(call.B, call.O)
        m  == get_referential(call.O, call.A, Mirror(call.O, call.A, call.B))
    IN  /\ \A t \in Shears :
             get_referential(call.O, call.A, QAdd(call.B, QScale(t, OA))) = ret
        /\ IDot(ret.eX.vec, ret.eY.vec) = 0 /\ ~VecIsNaN(ret.eY)
        /\ (ret.eY = VDiv(FromQ(OB), norm(FromQ(OB)))) <=> (QDot(OA, OB) = R(0))
        /\ DotSign(FromQ(OB), ret.eY) = 1
        /\ m.eX = ret.eX
        /\ m.eY = VNeg(ret.eY)
        /\ m.eZ = VNeg(ret.eZ)

\* A frame returned for a B that is not perpendicular to O -> A, so that
\* eY differs from the direction of B - O.
C10_Witness ==
  /\ RefValid
  /\ QDot(QSub(call.A, call.O), QSub(call.B, call.O)) # R(0)
  /\ ret.eY # VDiv(FromQ(QSub(call.B, call.O)),
                   norm(FromQ(QSub(call.B, call.O))))

\* ------------------------------------------ get_black_points under test

MaxN == 3

MaxBlack == 2

MaxExtent == 4

\* The cells of an Ny x Nx grid, and its grids of ones with at most
\* MaxBlack zeros.
Cells(Ny, Nx) == (1..Ny) \X (1..Nx)

Grid(Ny, Nx, zeros) ==
  [shape |-> <<Ny, Nx>>,
   px    |-> [j \in 1..Ny |-> [i \in 1..Nx |->
                IF <<j, i>> \in zeros THEN 0 ELSE 1]]]

Grids ==
  UNION {{Grid(Ny, Nx, zs) :
            zs \in {z \in SUBSET Cells(Ny, Nx) : Cardinality(z) <= MaxBlack}} :
         Ny \in 0..MaxN, Nx \in 0..MaxN}

\* Extents as the callers pass them: Python ints (the test's 2 and 4 among
\* them) and floats, positive or not.
Extents ==
  {PyInt(k) : k \in 0..MaxExtent}
    \cup {PyFloat(R(3)), PyFloat(Rat(5, 2)), PyFloat(R(-2))}

InitGrid ==
  /\ call \in {[fn |-> "get_black_points", data |-> d, width |-> w,
                height |-> h] : d \in Grids, w \in Extents, h \in Extents}
  /\ ret = Pending
  /\ InitGui

CallGetBlackPoints ==
  /\ call.fn = "get_black_points"
  /\ ret = Pending
  /\ ret' = get_black_points(call.data, call.width, call.height)
  /\ UNCHANGED <<call, gui>>

NextGrid == CallGetBlackPoints

SpecGrid == InitGrid /\ [][NextGrid]_vars

\* -------------------------------------------- claims on get_black_points

GridDone == call.fn = "get_black_points" /\ ret # Pending

Positive(e) == RLess(R(0), e.v)

ZeroCells(d) ==
  {c \in Cells(d.shape[1], d.shape[2]) : d.px[c[1]][c[2]] = 0}

\* The place of zero cell c among the zero cells in row-major order.
Rank(d, c) ==
  Cardinality({z \in ZeroCells(d) :
                 z[1] < c[1] \/ (z[1] = c[1] /\ z[2] <= c[2])})

\* C3: for a non-empty grid and positive width and height, x and y have one
\* entry per zero cell and no other, and the k-th entries are the column
\* and row coordinates of the k-th zero cell in row-major order.
C3_RowMajorZeros ==
  (/\ GridDone
   /\ call.data.shape[1] >= 1 /\ call.data.shape[2] >= 1
   /\ Positive(call.width) /\ Positive(call.height)) =>
    LET d  == call.data
        xs == linspace(PyDiv(PyNeg(call.width), PyInt(2)),
                       PyDiv(call.width, PyInt(2)), d.shape[2])
        ys == linspace(PyDiv(call.height, PyInt(2)),
                       PyDiv(PyNeg(call.height), PyInt(2)), d.shape[1])
    IN  /\ ret.raised = "none"
        /\ Len(ret.black_x) = Cardinality(ZeroCells(d))
        /\ Len(ret.black_y) = Cardinality(ZeroCells(d))
        /\ \A c \in ZeroCells(d) :
             /\ ret.black_x[Rank(d, c)] = xs[c[2]]
             /\ ret.black_y[Rank(d, c)] = ys[c[1]]

\* The test's grid, [[1,1,1],[0,1,1],[1,0,1]] with width 2 and height 4,
\* mapped to x = [-1, 0] and y = [0, -2].
C3_Witness ==
  /\ GridDone
  /\ call.data = Grid(3, 3, {<<2, 1>>, <<3, 2>>})
  /\ call.width = PyInt(2) /\ call.height = PyInt(4)
  /\ ret.black_x = <<R(-1), R(0)>>
  /\ ret.black_y = <<R(0), R(-2)>>

\* C4: for Ny, Nx >= 2 and positive width and height, int or float, column
\* i is at -width/2 + i width/(Nx-1) and row j at height/2 - j height/(Ny-1)
\* (i, j counted from 0), the halves being exact.
C4_Centred ==
  (/\ GridDone
   /\ call.data.shape[1] >= 2 /\ call.data.shape[2] >= 2
   /\ Positive(call.width) /\ Positive(call.height)) =>
    LET d  == call.data
        w  == call.width.v
        h  == call.height.v
    IN  \A c \in ZeroCells(d) :
          /\ Rank(d, c) <= Len(ret.black_x)
          /\ Rank(d, c) <= Len(ret.black_y)
          /\ ret.black_x[Rank(d, c)] =
               RAdd(RDiv(RNeg(w), R(2)),
                    RDiv(RMul(R(c[2] - 1), w), R(d.shape[2] - 1)))
          /\ ret.black_y[Rank(d, c)] =
               RSub(RDiv(h, R(2)),
                    RDiv(RMul(R(c[1] - 1), h), R(d.shape[1] - 1)))

\* C8: for a grid with no rows or no columns get_black_points fails with
\* EmptyGrid and returns no point set.
C8_EmptyGridRaises ==
  (GridDone /\ (call.data.shape[1] = 0 \/ call.data.shape[2] = 0)) =>
    ret = [raised |-> "EmptyGrid"]

\* -------------------------------------- transform_coordinates under test

MaxPoints == 2

\* Points, in wafer or in stage coordinates: the two of the test, and two
\* off the axes.
Samples ==
  {QV(0, 0, 0), QV(1, 1, 1), QV(-1, 2, 0), <<Rat(1, 2), R(-3), R(2)>>}

PointLists == UNION {[1..n -> Samples] : n \in 0..MaxPoints}

\* A frame as three vectors of rationals.
FrameOf(r) == <<ToQ(r.eX), ToQ(r.eY), ToQ(r.eZ)>>

\* Orthonormal frames with rational components, as get_referential returns
\* them: the stage axes, the test's quarter turn about eZ, a 3-4-5 turn
\* about eZ, and a frame with no axis in a stage plane.
OrthoFrames ==
  {FrameOf(get_referential(QZero, ab[1], ab[2])) :
     ab \in {<<QV(1, 0, 0), QV(0, 1, 0)>>, <<QV(0, 1, 0), QV(-1, 0, 0)>>,
             <<QV(3, 4, 0), QV(0, 0, 2)>>, <<QV(1, 2, 2), QV(2, 1, -2)>>}}

\* Frames that are not orthonormal: a skew one, and the NaN frame that
\* get_referential returns for A = O.
OtherFrames ==
  {<<QV(1, 2, 0), QV(0, 1, 1), QV(1, 0, -1)>>,
   FrameOf(get_referential(QZero, QZero, QV(0, 1, 0)))}

XOrigins == {QV(0, 0, 0), QV(1, 1, 1)}

Column(ps, k) == [n \in 1..Len(ps) |-> ps[n][k]]

\* The plane-local coordinates of stage point P: ((P-O).eX, (P-O).eY,
\* (P-O).eZ).
Local(P, O, f) ==
  <<QDot(QSub(P, O), f[1]), QDot(QSub(P, O), f[2]), QDot(QSub(P, O), f[3])>>

XCall(src, P, ps, O, f) ==
  [fn |-> "transform_coordinates", src |-> src, P |-> P,
   x |-> Column(ps, 1), y |-> Column(ps, 2), z |-> Column(ps, 3),
   O |-> O, eX |-> f[1], eY |-> f[2], eZ |-> f[3]]

\* Either wafer points given as such, under any frame, or stage points P
\* taken into the plane-local coordinates of an orthonormal frame.
InitXform ==
  /\ call \in
       {XCall("local", <<>>, ps, O, f) :
          ps \in PointLists, O \in XOrigins, f \in OrthoFrames \cup OtherFrames}
       \cup
       {XCall("stage", P, [n \in 1..Len(P) |-> Local(P[n], O, f)], O, f) :
          P \in PointLists, O \in XOrigins, f \in OrthoFrames}
  /\ ret = Pending
  /\ InitGui

CallTransformCoordinates ==
  /\ call.fn = "transform_coordinates"
  /\ ret = Pending
  /\ ret' = transform_coordinates(call.x, call.y, call.z,
                                  call.O, call.eX, call.eY, call.eZ)
  /\ UNCHANGED <<call, gui>>

NextXform == CallTransformCoordinates

SpecXform == InitXform /\ [][NextXform]_vars

\* --------------------------------------- claims on transform_coordinates

XformDone == call.fn = "transform_coordinates" /\ ret # Pending

Out(r) == <<r.X, r.Y, r.Z>>

\* C5: the outputs have the length of the inputs, the n-th output on stage
\* axis k is O[k] + x[n] eX[k] + y[n] eY[k] + z[n] eZ[k], it is what the
\* n-th point alone is mapped to, and the call does not fail.
C5_Elementwise ==
  XformDone =>
    /\ ret.raised = "none"
    /\ \A k \in Axes :
         /\ Len(Out(ret)[k]) = Len(call.x)
         /\ \A n \in 1..Len(call.x) :
              /\ Out(ret)[k][n] =
                   RAdd(RAdd(RAdd(call.O[k], RMul(call.x[n], call.eX[k])),
                             RMul(call.y[n], call.eY[k])),
                        RMul(call.z[n], call.eZ[k]))
              /\ Out(ret)[k][n] =
                   Out(transform_coordinates(
                         <<call.x[n]>>, <<call.y[n]>>, <<call.z[n]>>,
                         call.O, call.eX, call.eY, call.eZ))[k][1]

\* The test's translation: wafer points (1,1,1) and (0,0,0) under the
\* stage axes with O = (1,1,1) are mapped to (2,2,2) and (1,1,1).
C5_Witness ==
  /\ XformDone
  /\ call.src = "local"
  /\ call.x = <<R(1), R(0)>> /\ call.y = <<R(1), R(0)>>
  /\ call.z = <<R(1), R(0)>>
  /\ call.O = QV(1, 1, 1)
  /\ <<call.eX, call.eY, call.eZ>> = <<QV(1, 0, 0), QV(0, 1, 0), QV(0, 0, 1)>>
  /\ Out(ret) = <<<<R(2), R(1)>>, <<R(2), R(1)>>, <<R(2), R(1)>>>>

Orthonormal(eX, eY, eZ) ==
  /\ QDot(eX, eX) = R(1) /\ QDot(eY, eY) = R(1) /\ QDot(eZ, eZ) = R(1)
  /\ QDot(eX, eY) = R(0) /\ QDot(eX, eZ) = R(0) /\ QDot(eY, eZ) = R(0)

\* C6: stage points P taken into the plane-local coordinates of an
\* orthonormal frame and passed through transform_coordinates come back.
C6_RoundTrip ==
  (XformDone /\ call.src = "stage"
     /\ Orthonormal(call.eX, call.eY, call.eZ)) =>
    /\ Len(ret.X) = Len(call.P)
    /\ \A n \in 1..Len(call.P) : <<ret.X[n], ret.Y[n], ret.Z[n]>> = call.P[n]

\* Two stage points brought back through a frame none of whose axes is a
\* stage axis, with the origin off the stage origin.
C6_Witness ==
  /\ XformDone /\ call.src = "stage"
  /\ Orthonormal(call.eX, call.eY, call.eZ)
  /\ call.eX = <<Rat(1, 3), Rat(2, 3), Rat(2, 3)>>
  /\ call.O = QV(1, 1, 1)
  /\ call.P = <<QV(-1, 2, 0), <<Rat(1, 2), R(-3), R(2)>>>>
  /\ <<ret.X[2], ret.Y[2], ret.Z[2]>> = call.P[2]

\* ------------------------------------------------------------- the GUI

MaxSpacing == 2

\* What the user may type as pixel spacing or pixel size: zero, a negative
\* value, and positive ones.
SpacingInputs == {R(0), R(-1)} \cup {R(k) : k \in 1..MaxSpacing}

SizeInputs == {R(0), R(1), Rat(1, 2)}

\* The files the user may point to: the default picture (three pixels
\* wide, two high), a picture of a single row, and a path with no image.
Disk ==
  [path \in {DefaultPath, "row.png", "missing.png"} |->
     CASE path = DefaultPath ->
            [shape |-> <<2, 3>>, px |-> <<<<255, 0, 255>>, <<0, 90, 255>>>>]
       [] path = "row.png" ->
            [shape |-> <<1, 2>>, px |-> <<<<0, 255>>>>]
       [] OTHER -> Missing]

Paths == DOMAIN Disk

\* The reference points the user may enter.  Their frames have rational
\* components (eX along the stage's x axis), and O = A is among them.
OInputs == {QV(0, 0, 0), QV(1, 0, 0)}

AInputs == {QV(1, 0, 0), QV(3, 0, 0)}

BInputs == {QV(0, 1, 0), QV(1, -2, 0)}

Handler(p) == [p |-> p, call |-> call, ret |-> ret, raised |-> "none"]

Commit(h) ==
  /\ picture' = h.p
  /\ call' = h.call
  /\ ret' = h.ret
  /\ UNCHANGED referential

\* The user picks another file: path changes and update_data runs.
SetPath ==
  \E v \in Paths \ {picture.path} : \E nancast \in NanCasts :
    Commit(update_data(Handler([picture EXCEPT !.path = v]),
                       referential, Disk[v], nancast))

\* The user types a pixel spacing.  nonzero_validator refuses zero; a value
\* that changes the trait runs update_dimensions.
SetPixelSpacing ==
  \E v \in SpacingInputs :
    IF nonzero_validator(v).raised # "none" \/ v = picture.pixel_spacing
    THEN UNCHANGED vars
    ELSE Commit(update_dimensions(
                  Handler([picture EXCEPT !.pixel_spacing = v]), referential))

\* The user types a pixel size: validated as the spacing is.  The decorator
\* of update_dimensions, on_trait_change('pixel_spacing', 'pixel_size'),
\* gives 'pixel_size' as a second argument; whether Traits takes it as a
\* second name to listen to or as the flag that follows the names depends on
\* the Traits release, so the listener may run or not (listens).
SetPixelSize ==
  \E v \in SizeInputs : \E listens \in BOOLEAN :
    IF nonzero_validator(v).raised # "none" \/ v = picture.pixel_size
    THEN UNCHANGED vars
    ELSE IF listens
    THEN Commit(update_dimensions(
                  Handler([picture EXCEPT !.pixel_size = v]), referential))
    ELSE Commit(Handler([picture EXCEPT !.pixel_size = v]))

\* The button 'Update 2D'.
Update2D ==
  \E nancast \in NanCasts :
    Commit(update_preview2d(Handler(picture), referential,
                            Disk[picture.path], nancast))

\* The button 'Update 3D'.
Update3D == Commit(update_preview3d(Handler(picture), referential))

\* The user edits a reference point: the trait changes, no listener runs.
SetO ==
  /\ \E v \in OInputs : referential' = [referential EXCEPT !.O = v]
  /\ UNCHANGED <<call, ret, picture>>

SetA ==
  /\ \E v \in AInputs : referential' = [referential EXCEPT !.A = v]
  /\ UNCHANGED <<call, ret, picture>>

SetB ==
  /\ \E v \in BInputs : referential' = [referential EXCEPT !.B = v]
  /\ UNCHANGED <<call, ret, picture>>

\* The button 'recalculate'.
Recalculate ==
  /\ referential' = recalculate(referential)
  /\ UNCHANGED <<call, ret, picture>>

\* The button that exports the points.
ExportData ==
  \E exists \in BOOLEAN : \E answer \in {"YES", "NO"} :
    Commit(export_data(Handler(picture), exists, answer))

Init ==
  /\ call = [fn |-> "none"]
  /\ ret = Pending
  /\ InitGui

Next ==
  \/ SetPath
  \/ SetPixelSpacing
  \/ SetPixelSize
  \/ Update2D
  \/ Update3D
  \/ SetO
  \/ SetA
  \/ SetB
  \/ Recalculate
  \/ ExportData

Spec == Init /\ [][Next]_vars

\* ------------------------------------------- claims on the mapped extent

\* C7: the Picture never holds a width or height that is zero or negative,
\* and a get_black_points call with such a width or height fails with
\* InvalidExtent and returns no coordinates.
C7_ExtentPositive ==
  /\ RLess(R(0), picture.width)
  /\ RLess(R(0), picture.height)
  /\ (GridDone /\ ~(Positive(call.width) /\ Positive(call.height))) =>
       ret = [raised |-> "InvalidExtent"]

\* --------------------------------------------- path_to_array under test

MaxSide == 2

\* Intensities of a greyscale image: black, nearly black, the two around
\* half of 254 and of 255, and the two brightest.
Shades == {0, 1, 127, 128, 254, 255}

\* The greyscale images of at most MaxSide rows and columns.
Images ==
  UNION {{[shape |-> <<Ny, Nx>>, px |-> px] :
            px \in [1..Ny -> [1..Nx -> Shades]]} :
         Ny \in 1..MaxSide, Nx \in 1..MaxSide}

InitImage ==
  /\ call \in {[fn |-> "path_to_array", file |-> f] : f \in Images}
  /\ ret = Pending
  /\ InitGui

CallPathToArray ==
  /\ call.fn = "path_to_array"
  /\ ret = Pending
  /\ \E nancast \in NanCasts : ret' = path_to_array(call.file, nancast)
  /\ UNCHANGED <<call, gui>>

NextImage == CallPathToArray

SpecImage == InitImage /\ [][NextImage]_vars

\* ------------------------------------------------ claims on path_to_array

ImageDone == call.fn = "path_to_array" /\ ret # Pending

\* C14: for every greyscale image, uniformly black ones included, the
\* result has the image's shape, every entry is 0 or 1, and an entry is 0
\* exactly for the pixels darker than half of the image's maximum.
C14_ZeroOrOne ==
  ImageDone =>
    LET f   == call.file
        top == Max({f.px[j][i] : j \in 1..f.shape[1], i \in 1..f.shape[2]})
    IN  /\ ret.raised = "none"
        /\ ret.arr.shape = f.shape
        /\ \A j \in 1..f.shape[1] : \A i \in 1..f.shape[2] :
             /\ ret.arr.px[j][i] \in {0, 1}
             /\ (ret.arr.px[j][i] = 0) <=> (2 * f.px[j][i] < top)

\* ------------------------------------------------ move_abs under test

MaxMove == 2

\* Coordinates as a caller passes them: None, ints, and floats that need
\* rounding or a sign.
MoveCoords ==
  {None} \cup {PyInt(k) : k \in 0..MaxMove}
    \cup {PyFloat(Rat(-3, 2)), PyFloat(Rat(1, 3))}

InitStage ==
  /\ call \in {[fn |-> "move_abs", x |-> x, y |-> y, z |-> z] :
                 x \in MoveCoords, y \in MoveCoords, z \in MoveCoords}
  /\ ret = Pending
  /\ InitGui

CallMoveAbs ==
  /\ call.fn = "move_abs"
  /\ ret = Pending
  /\ ret' = move_abs(NewStage, call.x, call.y, call.z)
  /\ UNCHANGED <<call, gui>>

NextStage == CallMoveAbs

SpecStage == InitStage /\ [][NextStage]_vars

\* ------------------------------------------------------ claims on move_abs

MoveDone == call.fn = "move_abs" /\ ret # Pending

\* The absolute-position instruction of one axis.
Instruction(axis, c) == FormatD(axis) \o "MSA" \o FormatF6(c.v)

\* The instructions of the axes whose coordinate is given, in the order
\* x, y, z.
Given(x, y, z) ==
  (IF x = None THEN <<>> ELSE <<Instruction(x_axis, x)>>)
    \o (IF y = None THEN <<>> ELSE <<Instruction(y_axis, y)>>)
    \o (IF z = None THEN <<>> ELSE <<Instruction(z_axis, z)>>)

RECURSIVE Join(_)
Join(seq) ==
  IF Len(seq) = 1 THEN seq[1] ELSE seq[1] \o "; " \o Join(Tail(seq))

\* C13: move_abs writes the position instruction of every axis whose
\* coordinate is given (x on axis 3, y on axis 1, z on axis 2) and of no
\* axis whose coordinate is None, and writes '0RUN' after it.
C13_MoveAbsSkipsNone ==
  MoveDone =>
    LET g == Given(call.x, call.y, call.z)
    IN  IF g = <<>> THEN ret.con \in {<<>>, <<"0RUN\r">>}
        ELSE ret.con = <<Join(g) \o "\r", "0RUN\r">>

\* ------------------------------------------ claims on the exported points

ExportDone == call.fn = "savetxt"

\* The points of the current grid, extent and stored frame: the black pixels
\* of the Picture's data over its width and height, z = 0, mapped with the
\* Referential's O, eX, eY, eZ; none while no image is loaded.
FreshPoints ==
  IF size(picture.data) = 0 THEN <<>>
  ELSE LET b == get_black_points(picture.data, PyFloat(picture.width),
                                 PyFloat(picture.height))
           t == transform_coordinates(
                  b.black_x, b.black_y, [n \in 1..Len(b.black_x) |-> R(0)],
                  referential.O, referential.eX, referential.eY,
                  referential.eZ)
       IN  c_(t.X, t.Y, t.Z)

\* C11: whatever GUI events came before, the points the export action
\* writes are those of the current data, width, height and of the
\* Referential's current O, eX, eY, eZ, one per exposed pixel of the grid.
C11_ExportFresh ==
  ExportDone =>
    /\ call.points = FreshPoints
    /\ ret.lines = savetxt(FreshPoints)
    /\ size(picture.data) # 0 =>
         Len(call.points) = Cardinality(ZeroCells(picture.data))

\* ---------------------------------------------- claims on the stored frame

\* The frame of ref's O, A, B, as float vectors.
FrameFor(ref) ==
  LET r == get_referential(ref.O, ref.A, ref.B)
  IN  <<ToQ(r.eX), ToQ(r.eY), ToQ(r.eZ)>>

\* The points of p's grid and extent mapped with FrameFor(ref).
PointsFor(p, ref) ==
  LET b == get_black_points(p.data, PyFloat(p.width), PyFloat(p.height))
      f == FrameFor(ref)
      t == transform_coordinates(
             b.black_x, b.black_y, [n \in 1..Len(b.black_x) |-> R(0)],
             ref.O, f[1], f[2], f[3])
  IN  <<t.X, t.Y, t.Z>>

\* C12: in every state of the GUI the stored eX, eY, eZ are
\* get_referential(O, A, B) of the stored O, A, B, and whenever the exposure
\* points are mapped anew they are mapped with the frame of the current
\* O, A, B.
C12_FrameCurrent ==
  /\ [](<<referential.eX, referential.eY, referential.eZ>>
          = FrameFor(referential))
  /\ [][<<picture.X, picture.Y, picture.Z>>' # <<picture.X, picture.Y, picture.Z>>
         => <<picture'.X, picture'.Y, picture'.Z>>
              = PointsFor(picture', referential')]_vars

====
